---------------------------- MODULE Spec2Model ----------------------------
(***************************************************************************)
(* GestureFlow: a particle cloud driven by webcam hand tracking.           *)
(*                                                                         *)
(*   src/App.tsx            App: camera / hand-landmarker initialisation,  *)
(*                          the detection loop (animate), the gesture      *)
(*                          interpreter, the drawing handler               *)
(*   src/unnamed/part_000   the types (ParticleShape, ParticleConfig,      *)
(*                          HandState)                                     *)
(*   src/unnamed/part_001   UI, Particles (target generator, useFrame),    *)
(*                          DrawingCanvas, mediaPipeService                *)
(*                                                                         *)
(* Numbers.  The program computes in floating point; the model computes    *)
(* in fixed point and rounds to the nearest unit where a quotient or a     *)
(* square root is not exact:                                               *)
(*   - normalised quantities (landmark coordinates, the hand position,     *)
(*     the drawn points, the density, a Math.random() draw) are counted    *)
(*     in hundredths;                                                      *)
(*   - world coordinates of the particle buffers are counted in            *)
(*     thousandths;                                                        *)
(*   - the diffusion is counted in tenths (the slider's step).             *)
(*                                                                         *)
(* Three specifications share the variables:                               *)
(*   Spec       camera initialisation, teardown and the detection loop     *)
(*   SpecDraw   the control panel and the drawing overlay                  *)
(*   SpecSim    the Particles component: target generation and frames      *)
(*   SpecAggregate  SpecSim restricted to frames with no hand, run for     *)
(*              ever under weak fairness of the frame callback             *)
(***************************************************************************)
EXTENDS Integers, Sequences, FiniteSets, TLC

VARIABLES
    \* ---- App: camera, model and detection loop (src/App.tsx) ----
    initPc,            \* where the async initCamera stands
    srcObject,         \* video.srcObject: "null", or the stream with its tracks "live" / "stopped"
    handLandmarker,    \* the module-level landmarker singleton is created
    cleanedUp,         \* the effect cleanup has run
    requestRef,        \* requestRef.current: id of the last requested animation frame, 0 if none
    rafQueue,          \* ids of the animation-frame callbacks the browser still holds
    lastVideoTimeRef,  \* lastVideoTimeRef.current
    videoTime,         \* video.currentTime
    result,            \* what detectHands returned for the last processed frame
    handState,         \* App state handState
    cameraError,       \* App state cameraError
    \* ---- App, UI and DrawingCanvas: shape selection and drawing ----
    shape,             \* App state shape
    isDrawing,         \* App state isDrawing: the drawing overlay is open
    customPoints,      \* App state customPoints
    window,            \* window.innerWidth / innerHeight, the size the canvas is given
    canvasIsDrawing,   \* DrawingCanvas state isDrawing: a stroke is in progress
    pointsRef,         \* DrawingCanvas pointsRef.current: the captured pixel points
    \* ---- Particles (src/unnamed/part_001) ----
    props,             \* the props of the last render: config, shape, handState, customPoints
    positions,         \* the position buffer, one vector per particle slot
    targets,           \* the target buffer
    velocities,        \* the velocity buffer
    targetKind,        \* the branch of the target generator that wrote each slot
    uniforms,          \* the shader uniforms uTime, uBaseSize, uColor
    frames,            \* how many frames useFrame has simulated
    regens             \* how many times the target effect has run again after mounting

hvars == <<initPc, srcObject, handLandmarker, cleanedUp, requestRef, rafQueue,
           lastVideoTimeRef, videoTime, result, handState, cameraError>>

dvars == <<shape, isDrawing, customPoints, window, canvasIsDrawing, pointsRef>>

svars == <<props, positions, targets, velocities, targetKind, uniforms, frames, regens>>

vars == <<hvars, dvars, svars>>

-----------------------------------------------------------------------------
(* Arithmetic helpers *)

Abs(a) == IF a < 0 THEN -a ELSE a

Sign(a) == IF a < 0 THEN -1 ELSE IF a > 0 THEN 1 ELSE 0

\* a / b rounded to the nearest integer, halves away from zero (b > 0)
RoundDiv(a, b) == Sign(a) * ((2 * Abs(a) + b) \div (2 * b))

Vec(x, y, z) == [x |-> x, y |-> y, z |-> z]

RECURSIVE SqrtSearch(_, _, _)
\* the largest r in lo .. hi with r * r <= n
SqrtSearch(n, lo, hi) ==
    IF lo >= hi THEN lo
    ELSE LET mid == (lo + hi + 1) \div 2
         IN  IF mid * mid <= n THEN SqrtSearch(n, mid, hi) ELSE SqrtSearch(n, lo, mid - 1)

\* Math.sqrt, rounded to the nearest integer (n < 2^31)
Sqrt(n) ==
    LET f == SqrtSearch(n, 0, 46340)
    IN  IF n - f * f > f THEN f + 1 ELSE f

-----------------------------------------------------------------------------
(* Bounds of the model *)

\* the detection loop requests at most this many animation frames
MaxRequests == 3

\* video.currentTime takes the values 0 .. MaxVideoTime
MaxVideoTime == 2

\* a stroke captures at most this many points
MaxStroke == 3

\* PARTICLE_COUNT is 15000 in the source; the model keeps a few slots
PARTICLE_COUNT == 2

\* useFrame simulates at most this many frames (SpecSim)
MaxFrames == 3

\* useFrame simulates at most this many frames between the renders of SpecTargets
MaxTargetFrames == 1

\* the target effect runs again at most this many times (SpecTargets)
MaxRegens == 1


-----------------------------------------------------------------------------
(* Gesture interpreter: src/App.tsx, animate *)

NULL == "null"

\* the initial hand state; pinchDistance 1.0 is kept as its square, in 1/10000
InitialHandState ==
    [isDetected |-> FALSE, isPinched |-> FALSE,
     handPosition |-> Vec(0, 0, 0), pinchDistanceSq |-> 10000]

\* the landmarks animate reads, each in hundredths of the normalised frame
Hand(wrist, thumbTip, indexTip, middle) ==
    (0 :> wrist @@ 4 :> thumbTip @@ 8 :> indexTip @@ 9 :> middle)

\* the hands the camera may show
Hands ==
    { Hand(Vec(50, 60, 0), Vec(50, 50, 0), Vec(58, 50, 0), Vec(50, 40, 0)),   \* tips 0.08 apart, along x
      Hand(Vec(40, 50, 0), Vec(50, 50, 0), Vec(54, 56, 3), Vec(40, 50, 0)),   \* tips sqrt(0.0061) apart
      Hand(Vec(45, 55, 0), Vec(50, 50, 0), Vec(50, 50, 8), Vec(45, 45, 0)),   \* tips 0.08 apart, along z
      Hand(Vec(60, 60, 0), Vec(30, 50, 0), Vec(60, 50, 0), Vec(60, 40, 0)),   \* open hand
      Hand(Vec(50, 40, 0), Vec(50, 50, 0), Vec(50, 57, 0), Vec(50, 40, 0)) }  \* tips 0.07 apart

\* a HandLandmarkerResult, or the null detectHands returns without a landmarker
NullResult == [isNull |-> TRUE, landmarks |-> <<>>]

HandResult(hand) == [isNull |-> FALSE, landmarks |-> <<hand>>]

NoHandResult == [isNull |-> FALSE, landmarks |-> <<>>]

\* detectHands (numHands: 1)
DetectResults ==
    IF handLandmarker THEN {HandResult(h) : h \in Hands} \cup {NoHandResult} ELSE {NullResult}

\* result && result.landmarks.length > 0
HasHand(r) == ~r.isNull /\ Len(r.landmarks) > 0

\* the square of the thumb-tip to index-tip distance, in 1/10000.  The code
\* takes the square root and compares it with 0.08; the root is monotone, so
\* the model keeps the square and compares it with 0.08^2.
DistanceSq(a, b) ==
    (a.x - b.x) * (a.x - b.x) + (a.y - b.y) * (a.y - b.y) + (a.z - b.z) * (a.z - b.z)

\* the pinch threshold 0.08, squared, in 1/10000
PINCH_THRESHOLD_SQ == 64

IsPinchedAtOrBelow(distanceSq) == distanceSq <= PINCH_THRESHOLD_SQ

IsPinched(distanceSq) == distanceSq < PINCH_THRESHOLD_SQ

\* (center - 0.5) * -2 with center = (a + b) / 2, in hundredths
Mirror(a, b) == ((a + b) - 100) * (-1)

HandPositionOf(landmarks) ==
    Vec(Mirror(landmarks[0].x, landmarks[9].x), Mirror(landmarks[0].y, landmarks[9].y), 0)

DetectedState(landmarks) ==
    LET distanceSq == DistanceSq(landmarks[4], landmarks[8])
    IN  [isDetected |-> TRUE,
         isPinched |-> IsPinched(distanceSq),
         handPosition |-> HandPositionOf(landmarks),
         pinchDistanceSq |-> distanceSq]

NoHandStateReset(prev) == InitialHandState

\* setHandState(prev => ({ ...prev, isDetected: false, isPinched: false }))
NoHandState(prev) == [prev EXCEPT !.isDetected = FALSE, !.isPinched = FALSE]

AnimateBodyAlwaysDetects(r, pending) ==
    /\ requestRef < MaxRequests
    /\ lastVideoTimeRef' = videoTime
    /\ result' = r
    /\ handState' = IF HasHand(r) THEN DetectedState(r.landmarks[1]) ELSE NoHandState(handState)
    /\ requestRef' = requestRef + 1
    /\ rafQueue' = pending \cup {requestRef + 1}

\* the body of animate, given what detectHands returns if it is called and the
\* callbacks the browser still holds
AnimateBody(r, pending) ==
    /\ requestRef < MaxRequests
    /\ IF videoTime # lastVideoTimeRef
       THEN /\ lastVideoTimeRef' = videoTime
            /\ result' = r
            /\ handState' = IF HasHand(r) THEN DetectedState(r.landmarks[1]) ELSE NoHandState(handState)
       ELSE UNCHANGED <<lastVideoTimeRef, result, handState>>
    /\ requestRef' = requestRef + 1
    /\ rafQueue' = pending \cup {requestRef + 1}

-----------------------------------------------------------------------------
(* Camera and model initialisation, teardown: src/App.tsx, useEffect *)

CAMERA_ERROR == "Camera access denied or unsupported."

InitCameraFailsSilently == UNCHANGED cameraError

\* the catch clause of initCamera
InitCameraCatch == cameraError' = CAMERA_ERROR

\* getUserMedia resolves: the stream becomes the video's source
StreamAcquired ==
    /\ initPc = "getUserMedia"
    /\ initPc' = "loadeddata"
    /\ srcObject' = "live"
    /\ UNCHANGED <<dvars, svars>>
    /\ UNCHANGED <<handLandmarker, cleanedUp, requestRef, rafQueue, lastVideoTimeRef,
                   videoTime, result, handState, cameraError>>

\* getUserMedia rejects (permission denied, no camera)
StreamDenied ==
    /\ initPc = "getUserMedia"
    /\ initPc' = "failed"
    /\ InitCameraCatch
    /\ UNCHANGED <<dvars, svars>>
    /\ UNCHANGED <<srcObject, handLandmarker, cleanedUp, requestRef, rafQueue,
                   lastVideoTimeRef, videoTime, result, handState>>

\* video.onloadeddata: play and resolve.  The event may already be queued
\* when the tracks are stopped.
VideoLoadedData ==
    /\ initPc = "loadeddata"
    /\ srcObject # NULL
    /\ initPc' = "createHandLandmarker"
    /\ UNCHANGED <<dvars, svars>>
    /\ UNCHANGED <<srcObject, handLandmarker, cleanedUp, requestRef, rafQueue,
                   lastVideoTimeRef, videoTime, result, handState, cameraError>>

\* createHandLandmarker resolves and initCamera calls animate()
LandmarkerLoaded ==
    /\ initPc = "createHandLandmarker"
    /\ initPc' = "running"
    /\ handLandmarker' = TRUE
    /\ \E r \in {HandResult(h) : h \in Hands} \cup {NoHandResult} : AnimateBody(r, rafQueue)
    /\ UNCHANGED <<dvars, svars>>
    /\ UNCHANGED <<srcObject, cleanedUp, videoTime, cameraError>>

\* createHandLandmarker rejects (the model asset cannot be loaded)
LandmarkerFailed ==
    /\ initPc = "createHandLandmarker"
    /\ initPc' = "failed"
    /\ InitCameraCatch
    /\ UNCHANGED <<dvars, svars>>
    /\ UNCHANGED <<srcObject, handLandmarker, cleanedUp, requestRef, rafQueue,
                   lastVideoTimeRef, videoTime, result, handState>>

\* the browser runs a requested animation-frame callback: animate
AnimationFrame ==
    /\ \E id \in rafQueue :
          \E r \in DetectResults : AnimateBody(r, rafQueue \ {id})
    /\ UNCHANGED <<dvars, svars>>
    /\ UNCHANGED <<initPc, srcObject, handLandmarker, cleanedUp, videoTime, cameraError>>

\* the playing video shows its next frame
VideoAdvance ==
    /\ initPc \in {"createHandLandmarker", "running", "failed"}
    /\ srcObject = "live"
    /\ videoTime < MaxVideoTime
    /\ videoTime' = videoTime + 1
    /\ UNCHANGED <<dvars, svars>>
    /\ UNCHANGED <<initPc, srcObject, handLandmarker, cleanedUp, requestRef, rafQueue,
                   lastVideoTimeRef, result, handState, cameraError>>

\* the effect cleanup
Cleanup ==
    /\ ~cleanedUp
    /\ cleanedUp' = TRUE
    /\ rafQueue' = IF requestRef # 0 THEN rafQueue \ {requestRef} ELSE rafQueue
    /\ srcObject' = IF srcObject # NULL THEN "stopped" ELSE srcObject
    /\ UNCHANGED <<dvars, svars>>
    /\ UNCHANGED <<initPc, handLandmarker, requestRef, lastVideoTimeRef, videoTime,
                   result, handState, cameraError>>

-----------------------------------------------------------------------------
(* Shape selection and the drawing overlay: src/App.tsx, and UI and          *)
(* DrawingCanvas in src/unnamed/part_001                                     *)

\* ParticleShape (src/unnamed/part_000)
NEBULA == "NEBULA"
SPHERE == "SPHERE"
CUBE == "CUBE"
RING == "RING"
CUSTOM == "CUSTOM"

ParticleShape == {NEBULA, SPHERE, CUBE, RING, CUSTOM}

\* the shape buttons of the control panel
shapes == {NEBULA, SPHERE, CUBE, RING}

\* window sizes, scaled down to a few pixels
Windows == { [innerWidth |-> 4, innerHeight |-> 2], [innerWidth |-> 2, innerHeight |-> 4] }

\* where the pointer may be: the corners (0,0) and (width,height), and pixel (1,1)
PointerPositions ==
    { [x |-> 0, y |-> 0], [x |-> window.innerWidth, y |-> window.innerHeight], [x |-> 1, y |-> 1] }

NormalizeUnflipped(p, width, height) ==
    Vec(RoundDiv(p.x * 100, width) * 2 - 100, RoundDiv(p.y * 100, height) * 2 - 100, 0)

\* pixel space to normalised coordinates, in hundredths:
\* nx = (p.x / width) * 2 - 1, ny = -(p.y / height) * 2 + 1, z = 0
Normalize(p, width, height) ==
    Vec(RoundDiv(p.x * 100, width) * 2 - 100, (-RoundDiv(p.y * 100, height)) * 2 + 100, 0)

\* pointsRef.current.map(...)
NormalizeAll(points, width, height) ==
    [k \in 1..Len(points) |-> Normalize(points[k], width, height)]

\* the control panel lies under the overlay: its buttons are reached only
\* while the overlay is closed
SetShape(s) ==
    /\ ~isDrawing
    /\ shape' = s
    /\ UNCHANGED <<isDrawing, customPoints, window, canvasIsDrawing, pointsRef>>
    /\ UNCHANGED <<hvars, svars>>

\* onEnterDrawMode
EnterDrawMode ==
    /\ ~isDrawing
    /\ isDrawing' = TRUE
    /\ UNCHANGED <<shape, customPoints, window, canvasIsDrawing, pointsRef>>
    /\ UNCHANGED <<hvars, svars>>

\* onClose
CloseOverlay ==
    /\ isDrawing
    /\ isDrawing' = FALSE
    /\ UNCHANGED <<shape, customPoints, window, canvasIsDrawing, pointsRef>>
    /\ UNCHANGED <<hvars, svars>>

\* startDrawing (mouse down, touch start).  Its call of draw(e) reads the
\* isDrawing of the render the handler was created in: the point is captured
\* only if a stroke was already in progress.
StartDrawing(p) ==
    /\ isDrawing
    /\ canvasIsDrawing' = TRUE
    /\ pointsRef' = IF canvasIsDrawing THEN <<p>> ELSE <<>>
    /\ UNCHANGED <<shape, isDrawing, customPoints, window>>
    /\ UNCHANGED <<hvars, svars>>

\* draw (mouse move, touch move)
Draw(p) ==
    /\ isDrawing
    /\ Len(pointsRef) < MaxStroke
    /\ pointsRef' = IF canvasIsDrawing THEN Append(pointsRef, p) ELSE pointsRef
    /\ UNCHANGED <<shape, isDrawing, customPoints, window, canvasIsDrawing>>
    /\ UNCHANGED <<hvars, svars>>

StopDrawingEmitsAlways ==
    /\ isDrawing
    /\ canvasIsDrawing' = FALSE
    /\ customPoints' = NormalizeAll(pointsRef, window.innerWidth, window.innerHeight)
    /\ shape' = CUSTOM
    /\ isDrawing' = FALSE
    /\ UNCHANGED <<window, pointsRef>>
    /\ UNCHANGED <<hvars, svars>>

\* stopDrawing (mouse up, mouse leave, touch end), with handlePointsGenerated
StopDrawing ==
    /\ isDrawing
    /\ canvasIsDrawing' = FALSE
    /\ IF Len(pointsRef) > 0
       THEN /\ customPoints' = NormalizeAll(pointsRef, window.innerWidth, window.innerHeight)
            /\ shape' = CUSTOM
            /\ isDrawing' = FALSE
       ELSE UNCHANGED <<customPoints, shape, isDrawing>>
    /\ UNCHANGED <<window, pointsRef>>
    /\ UNCHANGED <<hvars, svars>>

InitDraw ==
    /\ shape = NEBULA
    /\ isDrawing = FALSE
    /\ customPoints = <<>>
    /\ window \in Windows
    /\ canvasIsDrawing = FALSE
    /\ pointsRef = <<>>

NextDraw ==
    \/ \E s \in shapes : SetShape(s)
    \/ EnterDrawMode
    \/ CloseOverlay
    \/ \E p \in PointerPositions : StartDrawing(p)
    \/ \E p \in PointerPositions : Draw(p)
    \/ StopDrawing

-----------------------------------------------------------------------------
(* Particles: src/unnamed/part_001                                           *)

Slots == 0..(PARTICLE_COUNT - 1)

\* Math.random(): the k-th draw (k = 0, 1, ...) of the stream an effect or a
\* frame consumes, in hundredths.  A stream is named by its seed; the draws
\* are 0, 0.25, 0.5 or 0.75.
Seeds == {0, 1, 2, 3}

Rand(seed, k) == ((seed * (k + 1)) % 4) * 25

\* the streams a later run of the target effect draws from
RegenSeeds == {1, 2}

\* Math.cos and Math.sin of draw * 2 * PI, for a draw of 0, 0.25, 0.5, 0.75
CosTurn(draw) == CASE draw = 0 -> 1 [] draw = 25 -> 0 [] draw = 50 -> -1 [] draw = 75 -> 0

SinTurn(draw) == CASE draw = 0 -> 0 [] draw = 25 -> 1 [] draw = 50 -> 0 [] draw = 75 -> -1

\* Math.cos and Math.sin of phi = Math.acos(2 * draw - 1), in thousandths
CosAcos(draw) == 20 * draw - 1000

SinAcos(draw) == Sqrt(1000000 - CosAcos(draw) * CosAcos(draw))

\* Math.sin(k) and Math.cos(k) for k = 0 .. 12 radians, in thousandths
SinTable == <<0, 841, 909, 141, -757, -959, -279, 657, 989, 412, -544, -1000, -537>>

CosTable == <<1000, 540, -416, -990, -654, 284, 960, 754, -146, -911, -839, 4, 844>>

Sin(k) == SinTable[k + 1]

Cos(k) == CosTable[k + 1]

\* state.clock.elapsedTime at a frame, in whole seconds
ElapsedTimes == {0, 3}

\* the viewport of the default camera (z = 10, fov 60) in a 16:9 window, in
\* thousandths: height 2 * 10 * tan(30 deg), width height * 16 / 9
VIEWPORT_HEIGHT == 11547

VIEWPORT_WIDTH == 20528

\* the control panel's sliders and colour picker, and the drawings
Densities == {10, 50, 80, 100}

Diffusions == {10, 20}

Sizes == {50, 80}

Colors == {"#00ffff", "#ff00ff"}

Drawings == { <<Vec(-100, 100, 0), Vec(100, -100, 0)>>, <<Vec(-50, 0, 0)>> }

\* App's initial state, as Particles first receives it
InitialProps ==
    [config |-> [density |-> 80, diffusion |-> 10, color |-> "#00ffff", size |-> 50],
     shape |-> NEBULA,
     handState |-> InitialHandState,
     customPoints |-> <<>>,
     customPointsId |-> 0]

\* the effect "Initialize Random Background/Starting positions"
InitialPosition(seed, i) ==
    Vec((Rand(seed, 3 * i) - 50) * 200,
        (Rand(seed, 3 * i + 1) - 50) * 200,
        (Rand(seed, 3 * i + 2) - 50) * 100 - 5000)

\* ---- the effect "Update Target Shapes" ----

\* const count = Math.floor(PARTICLE_COUNT * config.density)
Count(density) == (PARTICLE_COUNT * density) \div 100

\* if (i > count): the slot is sent to deep space
IsExiled(i, count) == i > count

EXILED == "EXILED"

\* the Math.random() calls one slot of the shape makes
DrawsPerSlot(p) ==
    IF p.shape = SPHERE \/ (p.shape = CUSTOM /\ Len(p.customPoints) = 0) THEN 2 ELSE 3

\* the index of the first draw of slot i: the slots before it are shape slots
\* up to count and exiled slots (three draws each) beyond
FirstDraw(i, p, base) ==
    LET count == Count(p.config.density)
    IN  IF ~IsExiled(i, count)
        THEN base + i * DrawsPerSlot(p)
        ELSE base + (count + 1) * DrawsPerSlot(p) + (i - count - 1) * 3

ExiledTarget(r1, r2, r3) == Vec((r1 - 50) * 500, (r2 - 50) * 500, (r3 - 50) * 500)

NebulaTarget(r1, r2, r3, diffusion) ==
    LET r == r1 * 3 * diffusion
    IN  Vec(RoundDiv(r * SinAcos(r3) * CosTurn(r2), 1000),
            RoundDiv(r * SinAcos(r3) * SinTurn(r2), 1000),
            RoundDiv(r * CosAcos(r3), 1000))

SphereTarget(u, v, diffusion) ==
    LET radius == 250 * diffusion
    IN  Vec(RoundDiv(radius * SinAcos(v) * CosTurn(u), 1000),
            RoundDiv(radius * SinAcos(v) * SinTurn(u), 1000),
            RoundDiv(radius * CosAcos(v), 1000))

CubeTarget(r1, r2, r3, diffusion) ==
    LET side == 4 * diffusion
    IN  Vec((r1 - 50) * side, (r2 - 50) * side, (r3 - 50) * side)

RingTarget(r1, r2, r3, diffusion) ==
    LET rInner == 200 * diffusion
        rOuter == 300 * diffusion
        rad == rInner + RoundDiv(r2 * (rOuter - rInner), 100)
    IN  Vec(CosTurn(r1) * rad, SinTurn(r1) * rad, (r3 - 50) * 5)

CustomTarget(i, r1, r2, r3, diffusion, points) ==
    IF Len(points) > 0
    THEN LET pt == points[(i % Len(points)) + 1]
         IN  Vec(pt.x * 5 * diffusion + (r1 - 50) * 2,
                 pt.y * 5 * diffusion + (r2 - 50) * 2,
                 pt.z * 10 + (r3 - 50) * 5)
    ELSE Vec((r1 - 50) * 50, (r2 - 50) * 50, 0)

\* the branch taken for slot i
TargetKindOf(i, p) == IF IsExiled(i, Count(p.config.density)) THEN EXILED ELSE p.shape

\* the target written to slot i, the effect's draws being those of the stream
\* seed from index base on
TargetOf(i, p, seed, base) ==
    LET k  == FirstDraw(i, p, base)
        r1 == Rand(seed, k)
        r2 == Rand(seed, k + 1)
        r3 == Rand(seed, k + 2)
        diffusion == p.config.diffusion
    IN  IF IsExiled(i, Count(p.config.density)) THEN ExiledTarget(r1, r2, r3)
        ELSE CASE p.shape = NEBULA -> NebulaTarget(r1, r2, r3, diffusion)
               [] p.shape = SPHERE -> SphereTarget(r1, r2, diffusion)
               [] p.shape = CUBE -> CubeTarget(r1, r2, r3, diffusion)
               [] p.shape = RING -> RingTarget(r1, r2, r3, diffusion)
               [] p.shape = CUSTOM -> CustomTarget(i, r1, r2, r3, diffusion, p.customPoints)

\* the effect, run for the props p
UpdateTargetShapes(p, seed, base) ==
    /\ targets' = [i \in Slots |-> TargetOf(i, p, seed, base)]
    /\ targetKind' = [i \in Slots |-> TargetKindOf(i, p)]

\* a render whose props change a dependency of the effect
Regenerate(p) ==
    /\ regens < MaxRegens
    /\ regens' = regens + 1
    /\ props' = p
    /\ \E seed \in RegenSeeds : UpdateTargetShapes(p, seed, 0)
    /\ UNCHANGED <<positions, velocities, uniforms, frames>>
    /\ UNCHANGED <<hvars, dvars>>

\* a shape button: setShape
ChangeShape(s) ==
    /\ s # props.shape
    /\ Regenerate([props EXCEPT !.shape = s])

\* the density slider
ChangeDensity(d) ==
    /\ d # props.config.density
    /\ Regenerate([props EXCEPT !.config.density = d])

\* the diffusion slider
ChangeDiffusion(f) ==
    /\ f # props.config.diffusion
    /\ Regenerate([props EXCEPT !.config.diffusion = f])

\* handlePointsGenerated: a new point list and shape CUSTOM.  The effect
\* compares its dependencies by identity: the list a stroke emits is a new
\* array (customPointsId names it), whatever its points are.
DrawnPoints(points) ==
    Regenerate([props EXCEPT !.customPoints = points, !.customPointsId = @ + 1,
                             !.shape = CUSTOM])

ChangeSizeRegenerating(z) ==
    /\ z # props.config.size
    /\ Regenerate([props EXCEPT !.config.size = z])

\* the size slider: no dependency of the effect changes
ChangeSize(z) ==
    /\ z # props.config.size
    /\ props' = [props EXCEPT !.config.size = z]
    /\ UNCHANGED <<positions, targets, velocities, targetKind, uniforms, frames, regens>>
    /\ UNCHANGED <<hvars, dvars>>

\* the colour picker
ChangeColor(c) ==
    /\ c # props.config.color
    /\ props' = [props EXCEPT !.config.color = c]
    /\ UNCHANGED <<positions, targets, velocities, targetKind, uniforms, frames, regens>>
    /\ UNCHANGED <<hvars, dvars>>

\* App publishes a new hand state
HandStateProp(h) ==
    /\ h # props.handState
    /\ props' = [props EXCEPT !.handState = h]
    /\ UNCHANGED <<positions, targets, velocities, targetKind, uniforms, frames, regens>>
    /\ UNCHANGED <<hvars, dvars>>

\* the hand states App publishes to the simulation
SimHandStates == {InitialHandState} \cup {DetectedState(h) : h \in Hands}

\* ---- useFrame ----

lerpFactorExploding == 20

lerpFactorAggregating == 80

explosionForce == 500

\* the epsilon added to the distance, 0.1
DIST_EPSILON == 100

\* the amplitude of the breathing noise, 0.002
NOISE_AMPLITUDE == 2

\* const isExploding = handState.isDetected && handState.isPinched
IsExploding(hs) == hs.isDetected /\ hs.isPinched

\* const lerpFactor = isExploding ? 0.02 : 0.08, in thousandths
LerpFactor(hs) == IF IsExploding(hs) THEN lerpFactorExploding ELSE lerpFactorAggregating

\* handX = handPosition.x * viewport.width / 2, handY likewise
HandX(hs) == RoundDiv(hs.handPosition.x * VIEWPORT_WIDTH, 200)

HandY(hs) == RoundDiv(hs.handPosition.y * VIEWPORT_HEIGHT, 200)

\* the point particles are pushed away from
ReferencePoint(hs) ==
    Vec(IF hs.isDetected THEN (-HandX(hs)) * 5 ELSE 0,
        IF hs.isDetected THEN (-HandY(hs)) * 5 ELSE 0,
        0)

OffsetTowards(pos, ref) == Vec(ref.x - pos.x, ref.y - pos.y, ref.z - pos.z)

\* dx, dy, dz
Offset(pos, ref) == Vec(pos.x - ref.x, pos.y - ref.y, pos.z - ref.z)

\* const dist = Math.sqrt(dx*dx + dy*dy + dz*dz) + 0.1
Dist(d) == Sqrt(d.x * d.x + d.y * d.y + d.z * d.z) + DIST_EPSILON

\* (d / dist) * explosionForce * Math.random()
Push(d, dist, draw) == RoundDiv(d * explosionForce * draw, dist * 100)

ExplodeVelocityDamped(v, d, r1, r2, r3) ==
    Vec(RoundDiv(v.x * 9, 10) + Push(d.x, Dist(d), r1),
        RoundDiv(v.y * 9, 10) + Push(d.y, Dist(d), r2),
        RoundDiv(v.z * 9, 10) + Push(d.z, Dist(d), r3))

\* the exploding branch: vx += ..., vy += ..., vz += ...
ExplodeVelocity(v, d, r1, r2, r3) ==
    Vec(v.x + Push(d.x, Dist(d), r1),
        v.y + Push(d.y, Dist(d), r2),
        v.z + Push(d.z, Dist(d), r3))

\* vx *= 0.90, ...
Dampen(v) == Vec(RoundDiv(v.x * 9, 10), RoundDiv(v.y * 9, 10), RoundDiv(v.z * 9, 10))

PullAway(pos, tgt, factor) == RoundDiv((pos - tgt) * factor, 1000)

\* p += (t - p) * lerpFactor
Pull(pos, tgt, factor) == RoundDiv((tgt - pos) * factor, 1000)

\* Math.sin(elapsedTime + i) * 0.002 and Math.cos(elapsedTime + i) * 0.002
NoiseX(t, i) == RoundDiv(Sin(t + i) * NOISE_AMPLITUDE, 1000)

NoiseY(t, i) == RoundDiv(Cos(t + i) * NOISE_AMPLITUDE, 1000)

AggregatePositionSlow(pos, tgt, hs, t, i) ==
    Vec(pos.x + Pull(pos.x, tgt.x, lerpFactorExploding) + NoiseX(t, i),
        pos.y + Pull(pos.y, tgt.y, lerpFactorExploding) + NoiseY(t, i),
        pos.z + Pull(pos.z, tgt.z, lerpFactorExploding))

\* the aggregation branch: pull towards the target, add the noise
AggregatePosition(pos, tgt, hs, t, i) ==
    Vec(pos.x + Pull(pos.x, tgt.x, LerpFactor(hs)) + NoiseX(t, i),
        pos.y + Pull(pos.y, tgt.y, LerpFactor(hs)) + NoiseY(t, i),
        pos.z + Pull(pos.z, tgt.z, LerpFactor(hs)))

\* px += vx, ...
ApplyVelocity(pos, v) == Vec(pos.x + v.x, pos.y + v.y, pos.z + v.z)

\* one pass of the loop body for slot i: the new velocity
NewVelocity(i, hs, seed) ==
    IF IsExploding(hs)
    THEN ExplodeVelocity(velocities[i], Offset(positions[i], ReferencePoint(hs)),
                         Rand(seed, 3 * i), Rand(seed, 3 * i + 1), Rand(seed, 3 * i + 2))
    ELSE Dampen(velocities[i])

\* one pass of the loop body for slot i: the new position
NewPosition(i, hs, t, seed) ==
    IF IsExploding(hs)
    THEN ApplyVelocity(positions[i], NewVelocity(i, hs, seed))
    ELSE ApplyVelocity(AggregatePosition(positions[i], targets[i], hs, t, i),
                       NewVelocity(i, hs, seed))

\* the useFrame callback at elapsed time t, its Math.random() draws being
\* those of the stream seed
FrameStep(t, seed) ==
    /\ uniforms' = [uTime |-> t, uBaseSize |-> props.config.size, uColor |-> props.config.color]
    /\ velocities' = [i \in Slots |-> NewVelocity(i, props.handState, seed)]
    /\ positions' = [i \in Slots |-> NewPosition(i, props.handState, t, seed)]
    /\ UNCHANGED <<props, targets, targetKind, regens>>
    /\ UNCHANGED <<hvars, dvars>>

\* an aggregating frame draws no random number
FrameSeeds == IF IsExploding(props.handState) THEN Seeds ELSE {0}

\* the clock never runs backwards: uTime holds its reading at the last frame
ClockReadings == {t \in ElapsedTimes : t >= uniforms.uTime}

\* the next frame, of a run of at most limit frames
FrameWithin(limit) ==
    /\ frames < limit
    /\ frames' = frames + 1
    /\ \E t \in ClockReadings : \E seed \in FrameSeeds : FrameStep(t, seed)

Frame == FrameWithin(MaxFrames)

\* a frame of the run in which no hand is ever detected, however long it is
AggregateFrame ==
    /\ ~props.handState.isDetected
    /\ UNCHANGED frames
    /\ \E t \in ClockReadings : FrameStep(t, 0)

\* Particles after mounting: both effects have run, on one stream of draws
InitParticles(seeds) ==
    /\ props = InitialProps
    /\ \E seed \in seeds :
          /\ positions = [i \in Slots |-> InitialPosition(seed, i)]
          /\ targets = [i \in Slots |-> TargetOf(i, InitialProps, seed, 3 * PARTICLE_COUNT)]
    /\ targetKind = [i \in Slots |-> TargetKindOf(i, InitialProps)]
    /\ velocities = [i \in Slots |-> Vec(0, 0, 0)]
    /\ uniforms = [uTime |-> 0, uBaseSize |-> InitialProps.config.size,
                   uColor |-> InitialProps.config.color]
    /\ frames = 0
    /\ regens = 0

NextSim ==
    \/ \E h \in SimHandStates : HandStateProp(h)
    \/ Frame

NextTargets ==
    \/ \E s \in ParticleShape \ {CUSTOM} : ChangeShape(s)
    \/ \E d \in Densities : ChangeDensity(d)
    \/ \E f \in Diffusions : ChangeDiffusion(f)
    \/ \E points \in Drawings : DrawnPoints(points)
    \/ \E z \in Sizes : ChangeSize(z)
    \/ \E c \in Colors : ChangeColor(c)
    \/ FrameWithin(MaxTargetFrames)

-----------------------------------------------------------------------------
(* The specifications *)

InitHand ==
    /\ initPc = "getUserMedia"
    /\ srcObject = NULL
    /\ handLandmarker = FALSE
    /\ cleanedUp = FALSE
    /\ requestRef = 0
    /\ rafQueue = {}
    /\ lastVideoTimeRef = -1
    /\ videoTime = 0
    /\ result = NullResult
    /\ handState = InitialHandState
    /\ cameraError = NULL

\* the application right after mounting, in a window of the first size
Init ==
    /\ InitHand
    /\ InitDraw
    /\ window = [innerWidth |-> 4, innerHeight |-> 2]
    /\ InitParticles({0})

InitDrawing == InitHand /\ InitDraw /\ InitParticles({0})

SpecDraw == InitDrawing /\ [][NextDraw]_vars

InitSim ==
    /\ InitHand
    /\ InitDraw
    /\ window = [innerWidth |-> 4, innerHeight |-> 2]
    /\ InitParticles(Seeds)

SpecSim == InitSim /\ [][NextSim]_vars

SpecTargets == InitSim /\ [][NextTargets]_vars

SpecAggregate == InitSim /\ [][AggregateFrame]_vars /\ WF_vars(AggregateFrame)

Next ==
    \/ StreamAcquired
    \/ StreamDenied
    \/ VideoLoadedData
    \/ LandmarkerLoaded
    \/ LandmarkerFailed
    \/ AnimationFrame
    \/ VideoAdvance
    \/ Cleanup

Spec == Init /\ [][Next]_vars

-----------------------------------------------------------------------------
(* Claims about the gesture interpreter and the detection loop, under Spec *)

\* C2: whenever the last processed result shows a hand, the hand state has
\* isDetected and is pinched exactly when the thumb tip (landmark 4) and the
\* index tip (landmark 8) are strictly less than 0.08 apart (0.0064 squared):
\* at exactly 0.08 it is not pinched.
C2_PinchIffCloserThanThreshold ==
    HasHand(result) =>
        LET thumbTip == result.landmarks[1][4]
            indexTip == result.landmarks[1][8]
            dx == thumbTip.x - indexTip.x
            dy == thumbTip.y - indexTip.y
            dz == thumbTip.z - indexTip.z
        IN  /\ handState.isDetected
            /\ handState.isPinched <=> (dx * dx + dy * dy + dz * dz < 8 * 8)

\* a hand whose tips are exactly 0.08 apart was processed and is not pinched
C2_Witness ==
    /\ HasHand(result)
    /\ DistanceSq(result.landmarks[1][4], result.landmarks[1][8]) = 8 * 8
    /\ handState.isDetected
    /\ ~handState.isPinched

\* C3: a processed frame without a hand clears isDetected and isPinched and
\* leaves handPosition and the pinch distance as they were.
C3_NoHandKeepsStalePosition ==
    [][(lastVideoTimeRef' # lastVideoTimeRef /\ ~HasHand(result'))
         => /\ ~handState'.isDetected
            /\ ~handState'.isPinched
            /\ handState'.handPosition = handState.handPosition
            /\ handState'.pinchDistanceSq = handState.pinchDistanceSq]_vars

\* a no-hand frame was processed after a hand frame: the position is stale
C3_Witness ==
    /\ ~HasHand(result)
    /\ ~result.isNull
    /\ ~handState.isDetected
    /\ handState.handPosition # InitialHandState.handPosition
    /\ handState.pinchDistanceSq # InitialHandState.pinchDistanceSq

\* C7: a failed initialisation sets the camera error, which then stays; the
\* initialisation is not retried, no animation frame is ever requested and
\* the hand state keeps isDetected = FALSE.
C7_InitFailureIsFinal ==
    /\ []((initPc = "failed") <=> (cameraError # NULL))
    /\ [](cameraError # NULL =>
             /\ requestRef = 0
             /\ rafQueue = {}
             /\ lastVideoTimeRef = -1
             /\ ~handState.isDetected)
    /\ [][cameraError # NULL => (cameraError' = cameraError /\ initPc' = initPc)]_vars

\* the model failed to load after the camera stream had been acquired
C7_Witness ==
    /\ initPc = "failed"
    /\ srcObject # NULL
    /\ cameraError = CAMERA_ERROR

\* C8: once the cleanup has run, animate never runs again (it would request
\* a new animation frame) and no acquired stream is left with live tracks.
C8_TeardownHaltsEverything ==
    [][cleanedUp => requestRef' = requestRef /\ srcObject' # "live"]_vars

\* the step is a run of animate: it takes the next animation-frame id
AnimateStep == requestRef' # requestRef

\* C12: a run of animate that finds the video at the timestamp it processed
\* last leaves the last detection result (detectHands is not called), the
\* hand state and the processed timestamp as they were; every run of animate
\* requests exactly one animation frame, whose id it keeps in requestRef.
C12_SameTimestampSkipsDetection ==
    [][AnimateStep =>
         /\ (videoTime = lastVideoTimeRef =>
                /\ result' = result
                /\ handState' = handState
                /\ lastVideoTimeRef' = lastVideoTimeRef)
         /\ requestRef' = requestRef + 1
         /\ rafQueue' \ rafQueue = {requestRef'}
         /\ Cardinality(rafQueue') <= Cardinality(rafQueue) + 1]_vars

\* animate ran three times while the video stayed at its first frame, which
\* showed a hand: the second and third run skipped the detection, and one
\* animation frame is pending
C12_Witness ==
    /\ requestRef = 3
    /\ videoTime = 0
    /\ lastVideoTimeRef = 0
    /\ HasHand(result)
    /\ handState.isDetected
    /\ rafQueue = {3}

-----------------------------------------------------------------------------
(* Claims about the drawing overlay, under SpecDraw *)

\* the step releases a stroke in progress that captured at least one point
ReleaseStep == canvasIsDrawing /\ ~canvasIsDrawing' /\ Len(pointsRef) > 0

\* C4: the release of a stroke with at least one captured point emits a list
\* as long as the captured one, in the same order, whose k-th element is
\* (2*x/width - 1, 1 - 2*y/height, 0) for the k-th captured pixel (x, y);
\* pixel (0,0) gives (-1,1) and pixel (width,height) gives (1,-1).
C4_EmittedPointsAreNormalized ==
    [][ReleaseStep =>
         /\ Len(customPoints') = Len(pointsRef)
         /\ \A k \in 1..Len(pointsRef) :
               LET px == pointsRef[k]
                   q == customPoints'[k]
               IN  /\ window.innerWidth * q.x = (2 * px.x - window.innerWidth) * 100
                   /\ window.innerHeight * q.y = (window.innerHeight - 2 * px.y) * 100
                   /\ q.z = 0
                   /\ (px.x = 0 /\ px.y = 0) => (q.x = -100 /\ q.y = 100)
                   /\ (px.x = window.innerWidth /\ px.y = window.innerHeight)
                         => (q.x = 100 /\ q.y = -100)]_vars

\* a stroke through pixel (0,0) twice and then (width,height) was released
\* and emitted three points, the repeated one twice
C4_Witness ==
    /\ ~canvasIsDrawing
    /\ Len(pointsRef) = 3
    /\ pointsRef[1] = [x |-> 0, y |-> 0]
    /\ pointsRef[2] = [x |-> 0, y |-> 0]
    /\ pointsRef[3] = [x |-> window.innerWidth, y |-> window.innerHeight]
    /\ customPoints = <<Vec(-100, 100, 0), Vec(-100, 100, 0), Vec(100, -100, 0)>>
    /\ shape = CUSTOM

\* C13: whenever the shape is CUSTOM the custom-point list is not empty, and
\* a step that makes the shape CUSTOM is a release that emits at least one
\* point and closes the overlay; so the props App renders never select the
\* target generator's fallback for an empty list.
C13_CustomShapeHasPoints ==
    /\ [](shape = CUSTOM => Len(customPoints) > 0)
    /\ [][(shape' = CUSTOM /\ shape # CUSTOM) =>
            /\ isDrawing /\ ~isDrawing' /\ ~canvasIsDrawing'
            /\ Len(pointsRef) > 0
            /\ Len(customPoints') = Len(pointsRef)]_vars

\* with the custom shape of a one-point drawing on show, the overlay was
\* opened again and a new stroke was begun, which has captured nothing yet
C13_Witness ==
    /\ shape = CUSTOM
    /\ Len(customPoints) = 1
    /\ isDrawing
    /\ canvasIsDrawing
    /\ pointsRef = <<>>

\* C14: while the overlay is open and no stroke is in progress, no step
\* changes the shape or the custom-point list: a release or pointer-leave
\* event emits only to end a stroke in progress.
C14_EmitsOnlyToEndAStroke ==
    [][(isDrawing /\ ~canvasIsDrawing) =>
          (shape' = shape /\ customPoints' = customPoints)]_vars

-----------------------------------------------------------------------------
(* Claims about the target generator, under SpecTargets *)

\* C1: the slots holding an exiled target are exactly those from index
\* floor(N * density) on, N - floor(N * density) of them, whatever the shape.
C1_ExiledCountMatchesDensity ==
    LET inShape == (PARTICLE_COUNT * props.config.density) \div 100
    IN  /\ Cardinality({i \in Slots : targetKind[i] = EXILED}) = PARTICLE_COUNT - inShape
        /\ \A i \in Slots : (targetKind[i] = EXILED) <=> (i >= inShape)

Axes == {"x", "y", "z"}

\* a dependency of the target effect differs between the two renders:
\* [shape, config.diffusion, config.density, customPoints]
DependencyChanged ==
    \/ props'.shape # props.shape
    \/ props'.config.diffusion # props.config.diffusion
    \/ props'.config.density # props.config.density
    \/ props'.customPointsId # props.customPointsId

\* the buffer holds one (x, y, z) triple for each of the PARTICLE_COUNT slots
HasLengthN(buffer) == DOMAIN buffer = Slots /\ \A i \in Slots : DOMAIN buffer[i] = Axes

\* C11: a step changes a target only if it changes the shape, the diffusion,
\* the density or the custom-point list; a simulated frame changes no
\* target, and neither does a step that changes only the size or the colour;
\* positions, targets and velocities always hold PARTICLE_COUNT triples.
C11_TargetsRewrittenOnlyOnDependencyChange ==
    /\ [][/\ targets' # targets => DependencyChanged
          /\ frames' # frames => targets' = targets
          /\ ((props'.config.size # props.config.size
                  \/ props'.config.color # props.config.color)
               /\ ~DependencyChanged) => targets' = targets]_vars
    /\ [](HasLengthN(positions) /\ HasLengthN(targets) /\ HasLengthN(velocities))

\* the targets were regenerated for another density, then the size and the
\* colour were changed and a frame was simulated with them
C11_Witness ==
    /\ regens = 1
    /\ props.config.density # InitialProps.config.density
    /\ props.config.size # InitialProps.config.size
    /\ props.config.color # InitialProps.config.color
    /\ frames = 1
    /\ uniforms.uBaseSize = props.config.size
    /\ uniforms.uColor = props.config.color
    /\ \E i \in Slots : positions[i] # InitialPosition(0, i)

-----------------------------------------------------------------------------
(* Claims about the frame update, under SpecSim *)

\* the step is a frame simulated while the hand is detected and pinched
ExplodingFrameStep ==
    frames' = frames + 1 /\ props.handState.isDetected /\ props.handState.isPinched

\* the step is a frame simulated otherwise
AggregatingFrameStep ==
    frames' = frames + 1 /\ ~(props.handState.isDetected /\ props.handState.isPinched)

NormSq(v) == v.x * v.x + v.y * v.y + v.z * v.z

\* C5, as claimed: in an exploding frame no particle's speed decreases.
C5_SpeedNeverDecreasesWhileExploding ==
    [][ExplodingFrameStep =>
         \A i \in Slots : NormSq(velocities'[i]) >= NormSq(velocities[i])]_vars

\* C5, amended: in an exploding frame a velocity component that is zero or
\* points the way of the particle's offset from the reference point does not
\* shrink, so the speed of a particle whose velocity is aligned with that
\* offset in every component does not decrease.
C5_AlignedSpeedNeverDecreases ==
    [][ExplodingFrameStep =>
         \A i \in Slots :
            LET d == Offset(positions[i], ReferencePoint(props.handState))
                v == velocities[i]
                w == velocities'[i]
            IN  /\ \A k \in Axes : v[k] * d[k] >= 0 => Abs(w[k]) >= Abs(v[k])
                /\ (\A k \in Axes : v[k] * d[k] >= 0) => NormSq(w) >= NormSq(v)]_vars

\* a particle that was already moving has been pushed on by a later exploding frame
C5_Witness ==
    /\ frames >= 2
    /\ props.handState.isDetected /\ props.handState.isPinched
    /\ \E i \in Slots : NormSq(velocities[i]) > explosionForce * explosionForce

\* C9: a frame explodes exactly when the hand is detected and pinched.  It
\* then moves each particle by its updated velocity alone; otherwise it
\* multiplies the velocity by 0.90 and moves the particle by 0.08 of its
\* offset to the target, by noise of at most 0.002 in x and in y, and by the
\* damped velocity (each product within half a unit of rounding).
C9_FrameBranches ==
    [][(ExplodingFrameStep =>
          \A i \in Slots : \A k \in Axes :
             positions'[i][k] = positions[i][k] + velocities'[i][k])
       /\ (AggregatingFrameStep =>
          \A i \in Slots : \A k \in Axes :
             LET moved == positions'[i][k] - positions[i][k] - velocities'[i][k]
                 noise == IF k = "z" THEN 0 ELSE 2
             IN  /\ 2 * Abs(10 * velocities'[i][k] - 9 * velocities[i][k]) <= 10
                 /\ Abs(1000 * moved - 80 * (targets[i][k] - positions[i][k]))
                       <= 500 + 1000 * noise)]_vars

\* both branches have been taken: a particle keeps a damped velocity from an
\* explosion while being pulled towards its target
C9_Witness ==
    /\ frames >= 2
    /\ ~props.handState.isPinched
    /\ \E i \in Slots : velocities[i] # Vec(0, 0, 0)

-----------------------------------------------------------------------------
(* Claims about the run without a hand, under SpecAggregate *)

\* how close the pull brings a particle on each axis: where 0.08 of the offset
\* no longer exceeds the noise (0.002 / 0.08 = 0.025, and half a unit of
\* rounding over 0.08)
Neighbourhood == ((2 * NOISE_AMPLITUDE + 1) * 1000) \div (2 * lerpFactorAggregating)

Near(i) == \A k \in Axes : Abs(targets[i][k] - positions[i][k]) <= Neighbourhood

\* C6: while no hand is detected and the targets stay, every frame brings
\* each particle closer to its target on each axis, up to the noise of 0.002
\* and strictly outside the neighbourhood; the velocity stays zero; and the
\* particles eventually are, and stay, in the neighbourhood of their targets.
C6_ConvergesWithoutHand ==
    /\ [][\A i \in Slots : \A k \in Axes :
            LET before == Abs(targets[i][k] - positions[i][k])
                after  == Abs(targets'[i][k] - positions'[i][k])
            IN  /\ after <= before + (IF k = "z" THEN 0 ELSE 2)
                /\ before > Neighbourhood => after < before]_vars
    /\ [](\A i \in Slots : velocities[i] = Vec(0, 0, 0))
    /\ <>[](\A i \in Slots : Near(i))

\* every particle has arrived near its target, the clock having advanced
C6_Witness ==
    /\ \A i \in Slots : Near(i) /\ positions[i] # targets[i]
    /\ uniforms.uTime = 3

=============================================================================
